---------------------------- MODULE Spec2Model ----------------------------
(***************************************************************************)
(* A model of cookie-rs: the request-side Cookie map (src/src/cookie.rs)   *)
(* and the response-side SetCookie store (src/src/set_cookie.rs).          *)
(*                                                                         *)
(* A Rust string is a sequence of one-character strings, so that split,    *)
(* trim, to_lowercase and starts_with are computed as the code computes    *)
(* them.  Option<T> is the empty sequence (None) or a one-element sequence *)
(* (Some(x)).  A HashMap is a function together with, where the iteration  *)
(* order matters, a sequence of its keys in the order the map iterates.    *)
(***************************************************************************)
EXTENDS Integers, Sequences, FiniteSets, TLC

VARIABLES
    pc,          \* the last operation that completed
    input,       \* the arguments the operation under check was called with
    headers,     \* a HeaderMap: a sequence of [name, value] occurrences
    set_cookie,  \* SetCookie.inner
    into_iter,   \* IntoIter.inner: the entries not yet visited
    yielded,     \* the (HeaderName, HeaderValue) pairs an iteration handed out
    cookie,      \* the Cookie maps (Option<Cookie> of from_headers)
    out          \* the String an operation returned

vars == <<pc, input, headers, set_cookie, into_iter, yielded, cookie, out>>

---------------------------------------------------------------------------
(* Option<T> *)

None == <<>>

Some(x) == <<x>>

IsSome(o) == o # <<>>

Unwrap(o) == o[1]

---------------------------------------------------------------------------
(* str *)

UpperCase ==
    <<"A","B","C","D","E","F","G","H","I","J","K","L","M",
      "N","O","P","Q","R","S","T","U","V","W","X","Y","Z">>

LowerCase ==
    <<"a","b","c","d","e","f","g","h","i","j","k","l","m",
      "n","o","p","q","r","s","t","u","v","w","x","y","z">>

Digits == <<"0","1","2","3","4","5","6","7","8","9">>

\* A byte of a HeaderValue outside visible ASCII (obs-text, 0x80..0xFF).
ObsText == "<80>"

\* char::is_whitespace, on the characters the model uses
Whitespace == {" ", "\t", "\n"}

to_lowercase_char(c) ==
    IF \E i \in DOMAIN UpperCase : UpperCase[i] = c
    THEN LowerCase[CHOOSE i \in DOMAIN UpperCase : UpperCase[i] = c]
    ELSE c

\* str::to_lowercase
to_lowercase(s) == [i \in DOMAIN s |-> to_lowercase_char(s[i])]

\* str::starts_with
starts_with(s, p) == Len(s) >= Len(p) /\ SubSeq(s, 1, Len(p)) = p

\* the index of the first occurrence of character c in s, 0 when there is none
Find(s, c) ==
    IF \E i \in DOMAIN s : s[i] = c
    THEN CHOOSE i \in DOMAIN s : s[i] = c /\ \A j \in 1..(i - 1) : s[j] # c
    ELSE 0

RECURSIVE split(_, _)
\* str::split(c), collected: always at least one piece
split(s, c) ==
    LET i == Find(s, c)
    IN  IF i = 0 THEN <<s>>
        ELSE <<SubSeq(s, 1, i - 1)>> \o split(SubSeq(s, i + 1, Len(s)), c)

\* str::split_once(c): None, or Some of the text before and after the first c
split_once(s, c) ==
    LET i == Find(s, c)
    IN  IF i = 0 THEN None
        ELSE Some(<<SubSeq(s, 1, i - 1), SubSeq(s, i + 1, Len(s))>>)

RECURSIVE trim_start(_)
trim_start(s) ==
    IF s # <<>> /\ Head(s) \in Whitespace THEN trim_start(Tail(s)) ELSE s

RECURSIVE trim_end(_)
trim_end(s) ==
    IF s # <<>> /\ s[Len(s)] \in Whitespace
    THEN trim_end(SubSeq(s, 1, Len(s) - 1))
    ELSE s

\* str::trim
trim(s) == trim_end(trim_start(s))

\* Iterator::nth(n) on a collected iterator (n counts from 0)
nth(xs, n) == IF n + 1 <= Len(xs) THEN Some(xs[n + 1]) ELSE None

\* itertools::join
RECURSIVE join(_, _)
join(xs, sep) ==
    IF xs = <<>> THEN <<>>
    ELSE IF Len(xs) = 1 THEN xs[1]
    ELSE xs[1] \o sep \o join(Tail(xs), sep)

DigitValue(c) == (CHOOSE i \in DOMAIN Digits : Digits[i] = c) - 1

IsDigit(c) == \E i \in DOMAIN Digits : Digits[i] = c

RECURSIVE DigitsValue(_, _)
DigitsValue(s, acc) ==
    IF s = <<>> THEN acc ELSE DigitsValue(Tail(s), acc * 10 + DigitValue(Head(s)))

\* <i64 as FromStr>::from_str(..).ok(): an optional sign, then one digit or
\* more and nothing else (the model's numbers stay far from the i64 range)
parse_i64(s) ==
    LET signed == s # <<>> /\ Head(s) \in {"+", "-"}
        body == IF signed THEN Tail(s) ELSE s
    IN  IF body = <<>> \/ \E i \in DOMAIN body : ~IsDigit(body[i]) THEN None
        ELSE IF signed /\ Head(s) = "-" THEN Some(0 - DigitsValue(body, 0))
        ELSE Some(DigitsValue(body, 0))

RECURSIVE NatToString(_)
NatToString(n) ==
    IF n < 10 THEN <<Digits[n + 1]>>
    ELSE NatToString(n \div 10) \o <<Digits[(n % 10) + 1]>>

\* i64::to_string
i64_to_string(n) == IF n < 0 THEN <<"-">> \o NatToString(0 - n) ELSE NatToString(n)

\* the permutations of a finite set, as sequences
Perms(S) ==
    {p \in [1..Cardinality(S) -> S] : \A i, j \in DOMAIN p : i # j => p[i] # p[j]}

---------------------------------------------------------------------------
(* set_cookie.rs: SameSite, SetCookieOptions *)

SameSiteVariants == {"Strict", "Lax", "None"}

\* SameSite::as_str
as_str(same_site) ==
    CASE same_site = "Strict" -> <<"S","t","r","i","c","t">>
      [] same_site = "Lax" -> <<"L","a","x">>
      [] same_site = "None" -> <<"N","o","n","e">>

\* <SameSite as FromStr>::from_str(..).ok()
from_str(s) ==
    CASE s = <<"s","t","r","i","c","t">> -> Some("Strict")
      [] s = <<"l","a","x">> -> Some("Lax")
      [] s = <<"n","o","n","e">> -> Some("None")
      [] OTHER -> None

\* SetCookieOptions::new / Default
DefaultOptions ==
    [http_only |-> FALSE, secure |-> FALSE, max_age |-> None,
     domain |-> None, path |-> None, same_site |-> None]

\* SetCookieOptions::is_set_cookie_option
is_set_cookie_option(token) ==
    LET st == to_lowercase(token)
    IN  \/ starts_with(st, <<"m","a","x","-","a","g","e","=">>)
        \/ starts_with(st, <<"d","o","m","a","i","n","=">>)
        \/ starts_with(st, <<"p","a","t","h","=">>)
        \/ st = <<"h","t","t","p","o","n","l","y">>
        \/ st = <<"s","e","c","u","r","e">>

NotSetCookieOption(token) == ~is_set_cookie_option(token)

\* one turn of the loop of <SetCookieOptions as From<Vec<&str>>>::from
OptionsStep(options, token) ==
    LET st == to_lowercase(token)
        second == nth(split(st, "="), 1)
    IN  IF starts_with(st, <<"d","o","m","a","i","n","=">>)
        THEN [options EXCEPT !.domain =
                 Some(IF IsSome(second) THEN Unwrap(second) ELSE <<>>)]
        ELSE IF starts_with(st, <<"m","a","x","-","a","g","e","=">>)
        THEN [options EXCEPT !.max_age =
                 Some(IF IsSome(second) /\ IsSome(parse_i64(Unwrap(second)))
                      THEN Unwrap(parse_i64(Unwrap(second)))
                      ELSE 0)]
        ELSE IF starts_with(st, <<"p","a","t","h","=">>)
        THEN [options EXCEPT !.path =
                 Some(IF IsSome(second) THEN Unwrap(second) ELSE <<"/">>)]
        ELSE IF starts_with(st, <<"h","t","t","p","o","n","l","y">>)
        THEN [options EXCEPT !.http_only = TRUE]
        ELSE IF starts_with(st, <<"s","e","c","u","r","e">>)
        THEN [options EXCEPT !.secure = TRUE]
        ELSE IF starts_with(st, <<"s","a","m","e","s","i","t","e">>)
        THEN (IF IsSome(second) /\ IsSome(from_str(Unwrap(second)))
              THEN [options EXCEPT !.same_site = from_str(Unwrap(second))]
              ELSE options)
        ELSE options

RECURSIVE OptionsLoop(_, _)
OptionsLoop(options, xs) ==
    IF xs = <<>> THEN options
    ELSE OptionsLoop(OptionsStep(options, Head(xs)), Tail(xs))

\* <SetCookieOptions as From<Vec<&str>>>::from
OptionsFrom(xs) == OptionsLoop(DefaultOptions, xs)

---------------------------------------------------------------------------
(* set_cookie.rs: fmt *)

\* fmt with the last two pushes exchanged: ;Secure before ;HttpOnly
fmt_secure_first(key, value, options) ==
    LET o == options
    IN  key \o <<"=">> \o value
        \o (IF IsSome(o.domain)
            THEN <<";","D","o","m","a","i","n","=">> \o Unwrap(o.domain) ELSE <<>>)
        \o (IF IsSome(o.max_age)
            THEN <<";","M","a","x","-","A","g","e","=">>
                 \o i64_to_string(Unwrap(o.max_age)) ELSE <<>>)
        \o (IF IsSome(o.path)
            THEN <<";","P","a","t","h","=">> \o Unwrap(o.path) ELSE <<>>)
        \o (IF IsSome(o.same_site)
            THEN <<";","S","a","m","e","S","i","t","e","=">>
                 \o as_str(Unwrap(o.same_site)) ELSE <<>>)
        \o (IF o.secure THEN <<";","S","e","c","u","r","e">> ELSE <<>>)
        \o (IF o.http_only THEN <<";","H","t","t","p","O","n","l","y">> ELSE <<>>)

\* fn fmt(key, value, &SetCookieOptions) -> String: the pushes, in order
fmt(key, value, options) ==
    LET b0 == key \o <<"=">> \o value
        b1 == IF IsSome(options.domain)
              THEN b0 \o <<";">> \o <<"D","o","m","a","i","n","=">>
                      \o Unwrap(options.domain)
              ELSE b0
        b2 == IF IsSome(options.max_age)
              THEN b1 \o <<";">> \o <<"M","a","x","-","A","g","e","=">>
                      \o i64_to_string(Unwrap(options.max_age))
              ELSE b1
        b3 == IF IsSome(options.path)
              THEN b2 \o <<";">> \o <<"P","a","t","h","=">>
                      \o Unwrap(options.path)
              ELSE b2
        b4 == IF IsSome(options.same_site)
              THEN b3 \o <<";">> \o <<"S","a","m","e","S","i","t","e","=">>
                      \o as_str(Unwrap(options.same_site))
              ELSE b3
        b5 == IF options.http_only
              THEN b4 \o <<";">> \o <<"H","t","t","p","O","n","l","y">>
              ELSE b4
        b6 == IF options.secure
              THEN b5 \o <<";">> \o <<"S","e","c","u","r","e">>
              ELSE b5
    IN  b6

---------------------------------------------------------------------------
(* set_cookie.rs: <SetCookie as From<I>>::from *)

\* HashMap::insert
Insert(map, key, entry) == (key :> entry) @@ map

\* HashMap::remove
Remove(map, key) == [k \in (DOMAIN map) \ {key} |-> map[k]]

\* HashMap::new
EmptyMap == <<>>

\* the loop's turn with the request side's policy: a raw value without a
\* usable pair discards what was parsed so far instead of being skipped
FromStep_abort(inner, header_value) ==
    LET pieces == split(header_value, ";")
        tokens == [i \in DOMAIN pieces |-> trim(pieces[i])]
        options == SelectSeq(tokens, is_set_cookie_option)
        key_value == SelectSeq(tokens, NotSetCookieOption)
        kv == IF key_value = <<>> THEN <<>> ELSE split(key_value[1], "=")
    IN  IF Len(kv) >= 2
        THEN Insert(inner, kv[1], [value |-> kv[2], options |-> OptionsFrom(options)])
        ELSE EmptyMap

\* one turn of the loop of from: one raw Set-Cookie value
FromStep(inner, header_value) ==
    LET pieces == split(header_value, ";")
        tokens == [i \in DOMAIN pieces |-> trim(pieces[i])]
        options == SelectSeq(tokens, is_set_cookie_option)
        key_value == SelectSeq(tokens, NotSetCookieOption)
        kv == IF key_value = <<>> THEN <<>> ELSE split(key_value[1], "=")
        key == nth(kv, 0)
        value == nth(kv, 1)
    IN  IF IsSome(key) /\ IsSome(value)
        THEN Insert(inner, Unwrap(key),
                    [value |-> Unwrap(value), options |-> OptionsFrom(options)])
        ELSE inner

RECURSIVE FromLoop(_, _)
FromLoop(inner, it) ==
    IF it = <<>> THEN inner
    ELSE FromLoop(FromStep(inner, Head(it)), Tail(it))

\* <SetCookie as From<I>>::from
SetCookieFrom(it) == FromLoop(EmptyMap, it)

---------------------------------------------------------------------------
(* Values the variables hold while an operation family is not in use *)

Idle == <<>>

---------------------------------------------------------------------------
(* SpecFmt: fmt applied to one entry, and the line parsed back *)

FmtKeys == {<<"k">>, <<"i","d">>}

FmtValues == {<<"v">>, <<>>, <<"a",";","b">>}

FmtMaxAges == {0, -5, 12345}

FmtDomains == {<<"e",".","c">>, <<"E",".","c">>, <<>>}

FmtPaths == {<<"/">>, <<"/","A">>}

OptionOf(S) == {None} \cup {Some(x) : x \in S}

FmtOptions ==
    [http_only : BOOLEAN, secure : BOOLEAN, max_age : OptionOf(FmtMaxAges),
     domain : OptionOf(FmtDomains), path : OptionOf(FmtPaths),
     same_site : OptionOf(SameSiteVariants)]

InitFmt ==
    /\ pc = "init"
    /\ input \in [key : FmtKeys, value : FmtValues, options : FmtOptions]
    /\ headers = Idle
    /\ set_cookie = EmptyMap
    /\ into_iter = Idle
    /\ yielded = Idle
    /\ cookie = Idle
    /\ out = Idle

\* fmt(key, value, options)
Fmt ==
    /\ pc = "init"
    /\ out' = fmt(input.key, input.value, input.options)
    /\ pc' = "fmt"
    /\ UNCHANGED <<input, headers, set_cookie, into_iter, yielded, cookie>>

\* SetCookie::from([line].iter()) on the line fmt produced
ParseLine ==
    /\ pc = "fmt"
    /\ set_cookie' = SetCookieFrom(<<out>>)
    /\ pc' = "parsed"
    /\ UNCHANGED <<input, headers, into_iter, yielded, cookie, out>>

NextFmt == Fmt \/ ParseLine

SpecFmt == InitFmt /\ [][NextFmt]_vars

\* the decimal text of the numbers of FmtMaxAges, written out
DecimalText(n) ==
    CASE n = 0 -> <<"0">>
      [] n = -5 -> <<"-","5">>
      [] n = 12345 -> <<"1","2","3","4","5">>

\* the text a field contributes: its segment when set, nothing when unset
Segment(present, text) == IF present THEN text ELSE <<>>

ExpectedLine(key, value, o) ==
    key \o <<"=">> \o value
    \o Segment(IsSome(o.domain),
               <<";","D","o","m","a","i","n","=">>
               \o (IF IsSome(o.domain) THEN Unwrap(o.domain) ELSE <<>>))
    \o Segment(IsSome(o.max_age),
               <<";","M","a","x","-","A","g","e","=">>
               \o (IF IsSome(o.max_age) THEN DecimalText(Unwrap(o.max_age)) ELSE <<>>))
    \o Segment(IsSome(o.path),
               <<";","P","a","t","h","=">>
               \o (IF IsSome(o.path) THEN Unwrap(o.path) ELSE <<>>))
    \o Segment(o.same_site = Some("Strict"),
               <<";","S","a","m","e","S","i","t","e","=","S","t","r","i","c","t">>)
    \o Segment(o.same_site = Some("Lax"),
               <<";","S","a","m","e","S","i","t","e","=","L","a","x">>)
    \o Segment(o.same_site = Some("None"),
               <<";","S","a","m","e","S","i","t","e","=","N","o","n","e">>)
    \o Segment(o.http_only, <<";","H","t","t","p","O","n","l","y">>)
    \o Segment(o.secure, <<";","S","e","c","u","r","e">>)

\* C2: fmt returns exactly name=value followed, in this order and with no
\* whitespace, by ;Domain=, ;Max-Age=, ;Path=, ;SameSite=, ;HttpOnly and
\* ;Secure, each present exactly when its field is set.
C2_FmtExact ==
    pc \in {"fmt", "parsed"} =>
        out = ExpectedLine(input.key, input.value, input.options)

\* C2's case: every field set, and the line is the one written here
C2_Witness ==
    /\ pc = "fmt"
    /\ input.key = <<"k">>
    /\ input.value = <<"v">>
    /\ input.options =
         [http_only |-> TRUE, secure |-> TRUE, max_age |-> Some(12345),
          domain |-> Some(<<"e",".","c">>), path |-> Some(<<"/">>),
          same_site |-> Some("Lax")]
    /\ out = <<"k","=","v",";","D","o","m","a","i","n","=","e",".","c",
               ";","M","a","x","-","A","g","e","=","1","2","3","4","5",
               ";","P","a","t","h","=","/",
               ";","S","a","m","e","S","i","t","e","=","L","a","x",
               ";","H","t","t","p","O","n","l","y",";","S","e","c","u","r","e">>

NoSeparator(s) == \A i \in DOMAIN s : s[i] \notin {";", "="}

\* C1: for a name and a value without ';' and '=', and any options, parsing
\* the line fmt produced gives a store with exactly the entry
\* name -> (value, options).
C1_RoundTrip ==
    (pc = "parsed" /\ NoSeparator(input.key) /\ NoSeparator(input.value)) =>
        set_cookie = (input.key :> [value |-> input.value,
                                    options |-> input.options])

---------------------------------------------------------------------------
(* SpecAttrs: one raw Set-Cookie value, name=value and attribute tokens *)

MaxAttrs == 3

\* An attribute token as it is written in the raw value: the attribute's name
\* in some letter case and, unless it is a flag, '=' and the text val (n is
\* the number val is the decimal text of).
Token(kind, name, flag, val, n) ==
    [kind |-> kind, name |-> name, flag |-> flag, val |-> val, n |-> n]

MaxAgeTokens ==
    {Token("max_age", name, FALSE, v[1], v[2]) :
        name \in {<<"M","a","x","-","A","g","e">>, <<"m","a","x","-","a","g","e">>},
        v \in {<< <<"1","2","3","4","5">>, 12345 >>, << <<"-","5">>, -5 >>}}

DomainTokens ==
    {Token("domain", name, FALSE, v, 0) :
        name \in {<<"D","o","m","a","i","n">>, <<"D","O","M","A","I","N">>},
        v \in {<<"e",".","c">>, <<"E",".","c">>}}

PathTokens ==
    {Token("path", name, FALSE, v, 0) :
        name \in {<<"P","a","t","h">>, <<"P","A","T","H">>},
        v \in {<<"/","a">>, <<"/","A">>}}

HttpOnlyTokens ==
    {Token("http_only", name, TRUE, <<>>, 0) :
        name \in {<<"H","t","t","p","O","n","l","y">>,
                  <<"H","T","T","P","O","N","L","Y">>,
                  <<"h","t","t","p","o","n","l","y">>}}

SecureTokens ==
    {Token("secure", name, TRUE, <<>>, 0) :
        name \in {<<"S","e","c","u","r","e">>, <<"S","E","C","U","R","E">>}}

SameSiteTokens ==
    {Token("same_site", name, FALSE, v, 0) :
        name \in {<<"S","a","m","e","S","i","t","e">>,
                  <<"s","a","m","e","s","i","t","e">>},
        v \in {<<"s","t","r","i","c","t">>, <<"S","t","r","i","c","t">>,
               <<"L","A","X">>, <<"n","o","n","e">>, <<"b","o","g","u","s">>}}

AttrTokens ==
    MaxAgeTokens \cup DomainTokens \cup PathTokens \cup HttpOnlyTokens
    \cup SecureTokens \cup SameSiteTokens

\* token sequences that name each attribute at most once, in any order
AttrSeqs ==
    {ts \in UNION {[1..n -> AttrTokens] : n \in 0..MaxAttrs} :
        \A i, j \in DOMAIN ts : i # j => ts[i].kind # ts[j].kind}

\* the spaces written before and after each ';'-separated token
Spacings == {<< <<>>, <<>> >>, << <<" ">>, <<>> >>, << <<" ">>, <<" ">> >>}

\* "key=value; Max-Age=12345; Domain=eeee.com; HttpOnly; Secure; Path=/abcd/e"
\* (the test set_cookie_from_header_values)
TestHeaderValue ==
    [key |-> <<"k","e","y">>, value |-> <<"v","a","l","u","e">>,
     attrs |-> <<
        Token("max_age", <<"M","a","x","-","A","g","e">>, FALSE,
              <<"1","2","3","4","5">>, 12345),
        Token("domain", <<"D","o","m","a","i","n">>, FALSE,
              <<"e","e","e","e",".","c","o","m">>, 0),
        Token("http_only", <<"H","t","t","p","O","n","l","y">>, TRUE, <<>>, 0),
        Token("secure", <<"S","e","c","u","r","e">>, TRUE, <<>>, 0),
        Token("path", <<"P","a","t","h">>, FALSE,
              <<"/","a","b","c","d","/","e">>, 0) >>,
     spacing |-> << <<" ">>, <<>> >>]

AttrInputs ==
    [key : {<<"k","e","y">>}, value : {<<"v">>}, attrs : AttrSeqs,
     spacing : Spacings]
    \cup {TestHeaderValue}

TokenText(t) == IF t.flag THEN t.name ELSE t.name \o <<"=">> \o t.val

\* the raw value: key=value, then each token after a ';'
RawOf(in) ==
    LET pre == in.spacing[1]
        post == in.spacing[2]
    IN  join(<<in.key \o <<"=">> \o in.value \o post>>
             \o [i \in DOMAIN in.attrs |-> pre \o TokenText(in.attrs[i]) \o post],
             <<";">>)

InitAttrs ==
    /\ pc = "init"
    /\ input \in AttrInputs
    /\ headers = Idle
    /\ set_cookie = EmptyMap
    /\ into_iter = Idle
    /\ yielded = Idle
    /\ cookie = Idle
    /\ out = Idle

\* SetCookie::from([raw].iter())
ParseRaw ==
    /\ pc = "init"
    /\ set_cookie' = SetCookieFrom(<<RawOf(input)>>)
    /\ pc' = "parsed"
    /\ UNCHANGED <<input, headers, into_iter, yielded, cookie, out>>

NextAttrs == ParseRaw

SpecAttrs == InitAttrs /\ [][NextAttrs]_vars

Has(attrs, kind) == \E i \in DOMAIN attrs : attrs[i].kind = kind

TokenOf(attrs, kind) == attrs[CHOOSE i \in DOMAIN attrs : attrs[i].kind = kind]

\* the options the tokens stand for, read off the tokens as written
ExpectedOptions(attrs) ==
    [http_only |-> Has(attrs, "http_only"),
     secure |-> Has(attrs, "secure"),
     max_age |-> IF Has(attrs, "max_age")
                 THEN Some(TokenOf(attrs, "max_age").n) ELSE None,
     domain |-> IF Has(attrs, "domain")
                THEN Some(TokenOf(attrs, "domain").val) ELSE None,
     path |-> IF Has(attrs, "path")
              THEN Some(TokenOf(attrs, "path").val) ELSE None,
     same_site |-> None]

\* C5: name=value followed by any subset, in any order, of Max-Age=<n>,
\* Domain=<d>, Path=<p>, HttpOnly and Secure (any letter case, optional
\* spaces) parses to name -> (value, options) with max_age = n, domain = d,
\* path = p exactly when their token is present, the flags true exactly when
\* their token is present, and same_site unset.
C5_AttributeExtraction ==
    (pc = "parsed" /\ ~Has(input.attrs, "same_site")) =>
        set_cookie = (input.key :> [value |-> input.value,
                                    options |-> ExpectedOptions(input.attrs)])

ExpectedSameSite(s) ==
    LET l == to_lowercase(s)
    IN  CASE l = <<"s","t","r","i","c","t">> -> Some("Strict")
          [] l = <<"l","a","x">> -> Some("Lax")
          [] l = <<"n","o","n","e">> -> Some("None")
          [] OTHER -> None

\* C10: parsing 'name=value; SameSite=<s>' stores name with same_site Strict,
\* Lax or None when <s> is 'strict', 'lax' or 'none' in any letter case, and
\* with same_site unset for any other <s>.
C10_SameSiteParsed ==
    (pc = "parsed" /\ Len(input.attrs) = 1 /\ input.attrs[1].kind = "same_site") =>
        /\ input.key \in DOMAIN set_cookie
        /\ set_cookie[input.key].options.same_site
               = ExpectedSameSite(input.attrs[1].val)

---------------------------------------------------------------------------
(* SpecTolerant: a sequence of raw Set-Cookie values, some without a pair *)

MaxRaws == 3

\* A token of a raw value as written, with what it was written as: an
\* attribute, a name=value pair (key, value) or a bare word.
Attr(text) == [kind |-> "attr", text |-> text, key |-> <<>>, value |-> <<>>]

Pair(key, value) ==
    [kind |-> "pair", text |-> key \o <<"=">> \o value, key |-> key, value |-> value]

Bare(text) == [kind |-> "bare", text |-> text, key |-> <<>>, value |-> <<>>]

T_HttpOnly == Attr(<<"H","t","t","p","O","n","l","y">>)

T_Secure == Attr(<<"S","e","c","u","r","e">>)

T_NotAPair == Bare(<<"n","o","t","-","a","-","p","a","i","r">>)

\* ["x=1", "not-a-pair", "y=2"]
TolerantExample ==
    << <<Pair(<<"x">>, <<"1">>)>>, <<T_NotAPair>>, <<Pair(<<"y">>, <<"2">>)>> >>

RawPool ==
    { <<Pair(<<"x">>, <<"1">>)>>,
      <<T_NotAPair>>,
      <<Pair(<<"y">>, <<"2">>)>>,
      <<Bare(<<>>)>>,
      <<T_HttpOnly>>,
      <<Pair(<<"x">>, <<"2">>), T_HttpOnly>>,
      <<T_Secure, Pair(<<"y">>, <<"3">>)>>,
      <<Bare(<<"z">>), Pair(<<"x">>, <<"1">>)>>,
      <<Pair(<<"x">>, <<"3">>), Pair(<<"y">>, <<"2">>)>> }

RawSeqs == UNION {[1..n -> RawPool] : n \in 0..MaxRaws}

\* the raw value: the tokens' texts joined by "; "
RawText(raw) == join([i \in DOMAIN raw |-> raw[i].text], <<";", " ">>)

RawTexts(raws) == [i \in DOMAIN raws |-> RawText(raws[i])]

InitTolerant ==
    /\ pc = "init"
    /\ input \in RawSeqs
    /\ headers = Idle
    /\ set_cookie = EmptyMap
    /\ into_iter = Idle
    /\ yielded = Idle
    /\ cookie = Idle
    /\ out = Idle

\* SetCookie::from(raws.iter())
ParseRaws ==
    /\ pc = "init"
    /\ set_cookie' = SetCookieFrom(RawTexts(input))
    /\ pc' = "parsed"
    /\ UNCHANGED <<input, headers, into_iter, yielded, cookie, out>>

NextTolerant == ParseRaws

SpecTolerant == InitTolerant /\ [][NextTolerant]_vars

IsNotAttr(t) == t.kind # "attr"

\* a raw value has a usable pair: its first non-attribute token is a pair
Usable(raw) ==
    LET rest == SelectSeq(raw, IsNotAttr)
    IN  rest # <<>> /\ rest[1].kind = "pair"

FirstPair(raw) == SelectSeq(raw, IsNotAttr)[1]

WrittenOptions(raw) ==
    [DefaultOptions EXCEPT
        !.http_only = \E i \in DOMAIN raw : raw[i] = T_HttpOnly,
        !.secure = \E i \in DOMAIN raw : raw[i] = T_Secure]

\* the store the usable raw values stand for: per name, the last of them
ExpectedStore(raws) ==
    LET usable == {i \in DOMAIN raws : Usable(raws[i])}
        keys == {FirstPair(raws[i]).key : i \in usable}
        last(k) == CHOOSE i \in usable :
                       /\ FirstPair(raws[i]).key = k
                       /\ \A j \in usable : FirstPair(raws[j]).key = k => j <= i
    IN  [k \in keys |-> [value |-> FirstPair(raws[last(k)]).value,
                         options |-> WrittenOptions(raws[last(k)])]]

\* C4: SetCookie::from always returns a store; a raw value with no
\* non-attribute token, or whose first non-attribute token has no '=',
\* contributes no entry, and the store is the one obtained by parsing the
\* sequence with those raw values removed.
C4_EntryTolerant ==
    pc = "parsed" =>
        /\ set_cookie = ExpectedStore(input)
        /\ set_cookie = SetCookieFrom(RawTexts(SelectSeq(input, Usable)))

\* C4's case: ["x=1", "not-a-pair", "y=2"] parsed to exactly x and y
C4_Witness ==
    /\ pc = "parsed"
    /\ input = TolerantExample
    /\ set_cookie = (<<"x">> :> [value |-> <<"1">>, options |-> DefaultOptions]
                     @@ <<"y">> :> [value |-> <<"2">>, options |-> DefaultOptions])

---------------------------------------------------------------------------
(* cookie.rs: Cookie::from_headers, from_cookie, from_set_cookie *)

\* http::header::COOKIE, SET_COOKIE, and one other header name
COOKIE == "cookie"

SET_COOKIE == "set-cookie"

HOST == "host"

HeaderNames == {COOKIE, SET_COOKIE, HOST}

\* HeaderValue::to_str(..).ok(): the text, unless a byte is not visible ASCII
header_to_str(x) ==
    IF \E i \in DOMAIN x : x[i] = ObsText THEN None ELSE Some(x)

\* HeaderMap::get: the first value of the name
HeaderGet(hs, name) ==
    LET occ == SelectSeq(hs, LAMBDA h : h.name = name)
    IN  IF occ = <<>> THEN None ELSE Some(occ[1].value)

\* the loop of from_cookie with HashMap::entry(..).or_insert: the first value
\* of a key is kept
RECURSIVE CookieLoop_first_wins(_, _)
CookieLoop_first_wins(inner, segments) ==
    IF segments = <<>> THEN Some(inner)
    ELSE LET kv == split_once(Head(segments), "=")
         IN  IF ~IsSome(kv) THEN None
             ELSE CookieLoop_first_wins(
                      IF trim(Unwrap(kv)[1]) \in DOMAIN inner THEN inner
                      ELSE Insert(inner, trim(Unwrap(kv)[1]), Unwrap(kv)[2]),
                      Tail(segments))

\* the loop of from_cookie with split('=') and unwrap_or_default in place of
\* split_once('=')?: a segment without '=' is a key with the empty value
RECURSIVE CookieLoop_empty_value(_, _)
CookieLoop_empty_value(inner, segments) ==
    IF segments = <<>> THEN Some(inner)
    ELSE LET kv == split_once(Head(segments), "=")
         IN  CookieLoop_empty_value(
                 IF IsSome(kv)
                 THEN Insert(inner, trim(Unwrap(kv)[1]), Unwrap(kv)[2])
                 ELSE Insert(inner, trim(Head(segments)), <<>>),
                 Tail(segments))

\* the loop of from_cookie with the response side's policy: a segment
\* without '=' is skipped
RECURSIVE CookieLoop_skip(_, _)
CookieLoop_skip(inner, segments) ==
    IF segments = <<>> THEN Some(inner)
    ELSE LET kv == split_once(Head(segments), "=")
         IN  IF ~IsSome(kv) THEN CookieLoop_skip(inner, Tail(segments))
             ELSE CookieLoop_skip(
                      Insert(inner, trim(Unwrap(kv)[1]), Unwrap(kv)[2]),
                      Tail(segments))

\* the loop of from_cookie over x.split(';'): None at the first segment
\* without '=', else the key trimmed and the value as it is
RECURSIVE CookieLoop(_, _)
CookieLoop(inner, segments) ==
    IF segments = <<>> THEN Some(inner)
    ELSE LET kv == split_once(Head(segments), "=")
         IN  IF ~IsSome(kv) THEN None
             ELSE CookieLoop(
                      Insert(inner, trim(Unwrap(kv)[1]), Unwrap(kv)[2]),
                      Tail(segments))

\* Cookie::from_cookie
from_cookie(x) ==
    LET text == header_to_str(x)
    IN  IF ~IsSome(text) THEN None
        ELSE CookieLoop(EmptyMap, split(Unwrap(text), ";"))

\* the loop of from_set_cookie: per value, the text before the first ';'
RECURSIVE SetCookieLoop(_, _)
SetCookieLoop(inner, xs) ==
    IF xs = <<>> THEN Some(inner)
    ELSE LET text == header_to_str(Head(xs))
         IN  IF ~IsSome(text) THEN None
             ELSE LET key_value == nth(split(Unwrap(text), ";"), 0)
                      kv == IF IsSome(key_value)
                            THEN split_once(Unwrap(key_value), "=") ELSE None
                  IN  IF ~IsSome(kv) THEN None
                      ELSE SetCookieLoop(
                               Insert(inner, Unwrap(kv)[1], Unwrap(kv)[2]),
                               Tail(xs))

\* Cookie::from_set_cookie
from_set_cookie(xs) == SetCookieLoop(EmptyMap, xs)

\* Cookie::from_headers
from_headers(header_name, hs) ==
    IF header_name = COOKIE
    THEN LET x == HeaderGet(hs, header_name)
         IN  IF ~IsSome(x) THEN None ELSE from_cookie(Unwrap(x))
    ELSE IF header_name = SET_COOKIE
    THEN LET occ == SelectSeq(hs, LAMBDA h : h.name = SET_COOKIE)
         IN  from_set_cookie([i \in DOMAIN occ |-> occ[i].value])
    ELSE None

---------------------------------------------------------------------------
(* SpecRequest: Cookie::from_headers(COOKIE, ..) on one Cookie header *)

MaxLen == 6

RequestAlphabet == {"a", "=", ";", " ", ObsText}

RequestValues == UNION {[1..n -> RequestAlphabet] : n \in 0..MaxLen}

InitRequest ==
    /\ pc = "init"
    /\ input = COOKIE
    /\ headers \in {<<[name |-> COOKIE, value |-> x]>> : x \in RequestValues}
    /\ set_cookie = EmptyMap
    /\ into_iter = Idle
    /\ yielded = Idle
    /\ cookie = None
    /\ out = Idle

\* Cookie::from_headers(header_name, &headers)
FromHeaders ==
    /\ pc = "init"
    /\ cookie' = from_headers(input, headers)
    /\ pc' = "from_headers"
    /\ UNCHANGED <<input, headers, set_cookie, into_iter, yielded, out>>

NextRequest == FromHeaders

SpecRequest == InitRequest /\ [][NextRequest]_vars

\* the Cookie header's value
CookieValue == headers[1].value

IsText(x) == \A i \in DOMAIN x : x[i] # ObsText

\* The ';'-separated segments of x, by position: segment k lies between the
\* (k-1)-th and the k-th ';' (the ends of x count as the 0-th and the last).
SemiAt(x) == {0, Len(x) + 1} \cup {i \in DOMAIN x : x[i] = ";"}

SegmentStarts(x) == SemiAt(x) \ {Len(x) + 1}

SegmentFrom(x, a) ==
    LET b == CHOOSE j \in SemiAt(x) :
                 j > a /\ \A m \in SemiAt(x) : m > a => j <= m
    IN  SubSeq(x, a + 1, b - 1)

HasEq(seg) == \E i \in DOMAIN seg : seg[i] = "="

BeforeEq(seg) ==
    SubSeq(seg, 1, (CHOOSE i \in DOMAIN seg :
                        seg[i] = "=" /\ \A j \in 1..(i - 1) : seg[j] # "=") - 1)

AfterEq(seg) ==
    SubSeq(seg, (CHOOSE i \in DOMAIN seg :
                     seg[i] = "=" /\ \A j \in 1..(i - 1) : seg[j] # "=") + 1,
           Len(seg))

\* C3: if any one segment of the Cookie header value has no '=',
\* from_headers(COOKIE, ..) returns None for the whole header, wherever the
\* segment stands: never an empty map, never a partial one.
C3_AllOrNothing ==
    (pc = "from_headers"
     /\ \E a \in SegmentStarts(CookieValue) : ~HasEq(SegmentFrom(CookieValue, a)))
        => cookie = None

\* C3's case: well-formed segments around a malformed one, and None returned
C3_Witness ==
    /\ pc = "from_headers"
    /\ CookieValue = <<"a","=",";","a",";","=">>
    /\ cookie = None

\* C6: when every segment has '=', the map's keys are the trimmed texts
\* before the first '=' of the segments, each mapped to the untrimmed text
\* after the first '=' of the last segment with that key; its length is the
\* number of distinct trimmed keys.
C6_LastWins ==
    (pc = "from_headers" /\ IsText(CookieValue)
     /\ \A a \in SegmentStarts(CookieValue) : HasEq(SegmentFrom(CookieValue, a)))
        => LET x == CookieValue
               keys == {trim(BeforeEq(SegmentFrom(x, a))) : a \in SegmentStarts(x)}
               last(k) == CHOOSE a \in SegmentStarts(x) :
                              /\ trim(BeforeEq(SegmentFrom(x, a))) = k
                              /\ \A b \in SegmentStarts(x) :
                                     trim(BeforeEq(SegmentFrom(x, b))) = k => b <= a
           IN  /\ IsSome(cookie)
               /\ DOMAIN Unwrap(cookie) = keys
               /\ \A k \in keys :
                      Unwrap(cookie)[k] = AfterEq(SegmentFrom(x, last(k)))
               /\ Cardinality(DOMAIN Unwrap(cookie)) = Cardinality(keys)

\* C6's case: "a=a;a=": two segments with the key a, and the second's
\* (empty) value is the one kept
C6_Witness ==
    /\ pc = "from_headers"
    /\ CookieValue = <<"a","=","a",";","a","=">>
    /\ cookie = Some(<<"a">> :> <<>>)

\* C11 as stated: parsing the empty Cookie header value succeeds and yields
\* a map with exactly one entry, the empty key mapped to the empty value.
C11_EmptyHeaderOneEntry ==
    (pc = "from_headers" /\ CookieValue = <<>>)
        => cookie = Some(<<>> :> <<>>)

\* C11, amended: parsing the empty Cookie header value fails:
\* from_headers(COOKIE, ..) returns None, neither a map with one empty-key
\* entry nor an empty map (the one segment of "" has no '=').
C11_EmptyHeaderFails ==
    (pc = "from_headers" /\ CookieValue = <<>>) => cookie = None

\* C11's case: the Cookie header is present, its value is empty and
\* from_headers has returned
C11_Witness ==
    /\ pc = "from_headers"
    /\ Len(headers) = 1
    /\ headers[1].name = COOKIE
    /\ Len(headers[1].value) = 0
    /\ ~IsSome(cookie)

---------------------------------------------------------------------------
(* SpecHeaders: Cookie::from_headers on header collections *)

MaxHeaders == 2

HeaderValues ==
    { <<"k","=","v">>,
      <<"b","a","d">>,
      <<"k","=","w",";"," ","S","e","c","u","r","e">> }

Occurrences == [name : HeaderNames, value : HeaderValues]

HeaderMaps == UNION {[1..n -> Occurrences] : n \in 0..MaxHeaders}

InitHeaders ==
    /\ pc = "init"
    /\ input \in HeaderNames
    /\ headers \in HeaderMaps
    /\ set_cookie = EmptyMap
    /\ into_iter = Idle
    /\ yielded = Idle
    /\ cookie = None
    /\ out = Idle

NextHeaders == FromHeaders

SpecHeaders == InitHeaders /\ [][NextHeaders]_vars

\* C9: from_headers returns None whenever the header collection holds no
\* occurrence of the requested header, be it Cookie, Set-Cookie or another.
C9_MissingHeader ==
    (pc = "from_headers" /\ \A i \in DOMAIN headers : headers[i].name # input)
        => cookie = None

---------------------------------------------------------------------------
(* SpecIter: a SetCookie store built by from/set/remove/take, then iterated *)

\* <HeaderValue as FromStr>::from_str(..).is_ok(): no control character
\* other than the tab
IsValidHeaderValue(st) == \A i \in DOMAIN st : st[i] \notin {"\n", "\r"}

IterKeys == {<<"k">>, <<"j">>}

IterValues == {<<"v">>, <<"a","\n","b">>}

IterOptions == {DefaultOptions, [DefaultOptions EXCEPT !.http_only = TRUE]}

IterRawPool ==
    { <<"k","=","v">>,
      <<"j","=","v",";"," ","H","t","t","p","O","n","l","y">>,
      <<"k","=","a","\n","b">> }

IterRawSeqs == UNION {[1..n -> IterRawPool] : n \in 0..MaxRaws}

InitIter ==
    /\ pc = "store"
    /\ input = Idle
    /\ headers = Idle
    /\ set_cookie = EmptyMap
    /\ into_iter = Idle
    /\ yielded = <<>>
    /\ cookie = Idle
    /\ out = None

\* the store is held (not moved into an IntoIter)
Held == pc \in {"store", "iter", "panic"}

\* SetCookie::from(raws.iter())
From ==
    /\ Held
    /\ \E raws \in IterRawSeqs : set_cookie' = SetCookieFrom(raws)
    /\ pc' = "store"
    /\ yielded' = <<>>
    /\ out' = None
    /\ UNCHANGED <<input, headers, into_iter, cookie>>

\* SetCookie::set(key, value, options)
Set ==
    /\ Held
    /\ \E key \in IterKeys, value \in IterValues, options \in IterOptions :
           set_cookie' = Insert(set_cookie, key,
                                [value |-> value, options |-> options])
    /\ pc' = "store"
    /\ yielded' = <<>>
    /\ out' = None
    /\ UNCHANGED <<input, headers, into_iter, cookie>>

\* SetCookie::remove(key)
RemoveEntry ==
    /\ Held
    /\ \E key \in IterKeys : set_cookie' = Remove(set_cookie, key)
    /\ pc' = "store"
    /\ yielded' = <<>>
    /\ out' = None
    /\ UNCHANGED <<input, headers, into_iter, cookie>>

\* SetCookie::take(key): the removed entry's value, if there was one
Take ==
    /\ Held
    /\ \E key \in IterKeys :
           /\ set_cookie' = Remove(set_cookie, key)
           /\ out' = IF key \in DOMAIN set_cookie
                     THEN Some(set_cookie[key].value) ELSE None
    /\ pc' = "store"
    /\ yielded' = <<>>
    /\ UNCHANGED <<input, headers, into_iter, cookie>>

\* the entries of the store in the order the HashMap iterates them
Entries(order) ==
    [i \in DOMAIN order |->
        [key |-> order[i], value |-> set_cookie[order[i]].value,
         options |-> set_cookie[order[i]].options]]

LineOf(e) == fmt(e.key, e.value, e.options)

HeaderPair(e) == [name |-> SET_COOKIE, value |-> LineOf(e)]

\* SetCookie::iter(), driven to its end: st.parse().unwrap() panics at the
\* first line that is no header value, after the pairs before it
Iter ==
    /\ Held
    /\ \E order \in Perms(DOMAIN set_cookie) :
           LET es == Entries(order)
               bad == {i \in DOMAIN es : ~IsValidHeaderValue(LineOf(es[i]))}
               stop == IF bad = {} THEN Len(es) + 1
                       ELSE CHOOSE i \in bad : \A j \in bad : i <= j
           IN  /\ yielded' = [i \in 1..(stop - 1) |-> HeaderPair(es[i])]
               /\ pc' = IF bad = {} THEN "iter" ELSE "panic"
    /\ out' = None
    /\ UNCHANGED <<input, headers, set_cookie, into_iter, cookie>>

\* SetCookie::into_iter(): the store moves into the IntoIter (set_cookie is
\* kept as the record of what was moved)
IntoIter ==
    /\ Held
    /\ \E order \in Perms(DOMAIN set_cookie) : into_iter' = Entries(order)
    /\ pc' = "into_iter"
    /\ yielded' = <<>>
    /\ out' = None
    /\ UNCHANGED <<input, headers, set_cookie, cookie>>

\* IntoIter::next(), called by a consumer that stops at the first None (a
\* for loop, collect): None when the entries are through, and None as well
\* when the next entry's line is no header value (.parse().ok()?)
IntoIterNext ==
    /\ pc = "into_iter"
    /\ IF into_iter = <<>>
       THEN /\ pc' = "ended"
            /\ UNCHANGED <<into_iter, yielded>>
       ELSE /\ into_iter' = Tail(into_iter)
            /\ IF IsValidHeaderValue(LineOf(Head(into_iter)))
               THEN /\ yielded' = Append(yielded, HeaderPair(Head(into_iter)))
                    /\ pc' = "into_iter"
               ELSE /\ yielded' = yielded
                    /\ pc' = "ended"
    /\ UNCHANGED <<input, headers, set_cookie, cookie, out>>

NextIter == From \/ Set \/ RemoveEntry \/ Take \/ Iter \/ IntoIter \/ IntoIterNext

SpecIter == InitIter /\ [][NextIter]_vars

\* C7: iterating a store (iter or into_iter) yields exactly one pair per
\* stored entry: as many pairs as entries, every name Set-Cookie, and the
\* lines exactly the fmt strings of the entries, none skipped, none twice.
C7_OnePairPerEntry ==
    pc \in {"iter", "panic", "ended"} =>
        /\ Len(yielded) = Cardinality(DOMAIN set_cookie)
        /\ \A i \in DOMAIN yielded : yielded[i].name = SET_COOKIE
        /\ \A k \in DOMAIN set_cookie :
               Cardinality({i \in DOMAIN yielded :
                   yielded[i].value = fmt(k, set_cookie[k].value,
                                          set_cookie[k].options)}) = 1

---------------------------------------------------------------------------
(* SpecSerialize: two Cookie maps, each built by parse, add and take, and   *)
(* serialized.  A Cookie is its HashMap (inner) with the order in which    *)
(* that HashMap iterates its keys: std's HashMap hashes with a RandomState *)
(* of its own, so the order is any order and differs from map to map.      *)

Instances == {1, 2}

SerKeys == {<<"a">>, <<"b">>}

SerValues == {<<"1">>, <<"2">>}

\* Cookie header values to parse
SerHeaderValues ==
    { <<"a","=","1">>,
      <<"a","=","1",";","b","=","2">>,
      <<"b","=","2",";","a","=","1">>,
      <<"a","=","2",";","b">> }

\* Cookie::new
NewCookie == [inner |-> EmptyMap, order |-> <<>>, moved |-> FALSE]

InitSerialize ==
    /\ pc = "cookies"
    /\ input = Idle
    /\ headers = Idle
    /\ set_cookie = EmptyMap
    /\ into_iter = Idle
    /\ yielded = Idle
    /\ cookie = [i \in Instances |-> NewCookie]
    /\ out = [i \in Instances |-> None]

\* the orders a HashMap that gains key k may iterate in: k at any place
\* among the keys it held
OrdersWith(order, k) ==
    {SubSeq(order, 1, n) \o <<k>> \o SubSeq(order, n + 1, Len(order)) :
        n \in 0..Len(order)}

\* Cookie::from_headers(COOKIE, ..).unwrap(): a new map, in an order of its own
SerFromHeaders(i) ==
    /\ ~cookie[i].moved
    /\ \E x \in SerHeaderValues :
           LET r == from_headers(COOKIE, <<[name |-> COOKIE, value |-> x]>>)
           IN  /\ IsSome(r)
               /\ \E order \in Perms(DOMAIN Unwrap(r)) :
                      cookie' = [cookie EXCEPT ![i] =
                          [inner |-> Unwrap(r), order |-> order, moved |-> FALSE]]
    /\ out' = [out EXCEPT ![i] = None]
    /\ UNCHANGED <<pc, input, headers, set_cookie, into_iter, yielded>>

\* Cookie::add(key, value)
Add(i) ==
    /\ ~cookie[i].moved
    /\ \E key \in SerKeys, value \in SerValues :
           \E order \in (IF key \in DOMAIN cookie[i].inner
                         THEN {cookie[i].order}
                         ELSE OrdersWith(cookie[i].order, key)) :
               cookie' = [cookie EXCEPT ![i] =
                   [inner |-> Insert(cookie[i].inner, key, value),
                    order |-> order, moved |-> FALSE]]
    /\ out' = [out EXCEPT ![i] = None]
    /\ UNCHANGED <<pc, input, headers, set_cookie, into_iter, yielded>>

\* Cookie::take(key)
CookieTake(i) ==
    /\ ~cookie[i].moved
    /\ \E key \in SerKeys :
           cookie' = [cookie EXCEPT ![i] =
               [inner |-> Remove(cookie[i].inner, key),
                order |-> SelectSeq(cookie[i].order, LAMBDA k : k # key),
                moved |-> FALSE]]
    /\ out' = [out EXCEPT ![i] = None]
    /\ UNCHANGED <<pc, input, headers, set_cookie, into_iter, yielded>>

\* Cookie::to_str: inner.iter().map(format!("{}={}")).join(";")
to_str(c) ==
    join([n \in DOMAIN c.order |-> c.order[n] \o <<"=">> \o c.inner[c.order[n]]],
         <<";">>)

\* Cookie::into_str: inner.into_iter().map(key + "=" + &value).join(";")
into_str(c) ==
    join([n \in DOMAIN c.order |-> (c.order[n] \o <<"=">>) \o c.inner[c.order[n]]],
         <<";">>)

ToStr(i) ==
    /\ ~cookie[i].moved
    /\ out' = [out EXCEPT ![i] = Some(to_str(cookie[i]))]
    /\ UNCHANGED <<pc, input, headers, set_cookie, into_iter, yielded, cookie>>

\* into_str takes the map by value (cookie[i] stays as the record of what
\* was serialized)
IntoStr(i) ==
    /\ ~cookie[i].moved
    /\ out' = [out EXCEPT ![i] = Some(into_str(cookie[i]))]
    /\ cookie' = [cookie EXCEPT ![i].moved = TRUE]
    /\ UNCHANGED <<pc, input, headers, set_cookie, into_iter, yielded>>

NextSerialize ==
    \E i \in Instances :
        SerFromHeaders(i) \/ Add(i) \/ CookieTake(i) \/ ToStr(i) \/ IntoStr(i)

SpecSerialize == InitSerialize /\ [][NextSerialize]_vars

\* the texts 'key=value' of a map's entries
PairTexts(inner) == {k \o <<"=">> \o inner[k] : k \in DOMAIN inner}

\* C8: to_str / into_str return the entries as 'key=value' joined by a
\* single ';' with no space, and the string is a function of the map's
\* contents alone: two Cookie maps holding the same pairs, however they were
\* produced, serialize to the identical string.
C8_Deterministic ==
    /\ \A i \in Instances :
           IsSome(out[i]) =>
               \E p \in Perms(PairTexts(cookie[i].inner)) :
                   Unwrap(out[i]) = join(p, <<";">>)
    /\ \A i, j \in Instances :
           (IsSome(out[i]) /\ IsSome(out[j])
            /\ cookie[i].inner = cookie[j].inner)
               => out[i] = out[j]

===========================================================================
